---------------------------- MODULE Spec2Model ----------------------------
(***************************************************************************)
(* The recipe execution engine of src/app.py: the per-recipe poll loop     *)
(* (execute_recipe), its dedup set and watermark, the trigger evaluation,  *)
(* and the RecipeManager that registers and starts the runner threads.     *)
(*                                                                         *)
(* One control thread (main) issues the commands; every started recipe has *)
(* its own runner thread.  Steps of different threads interleave.  A step  *)
(* of a runner is one shared-memory access of execute_recipe together with *)
(* the thread-local code around it.                                        *)
(***************************************************************************)
EXTENDS Integers, Sequences, FiniteSets, TLC

(***************************************************************************)
(* Bounds of the model.                                                    *)
(***************************************************************************)
\* fetches one runner performs before the model stops waking it
MaxCycles == 2
\* clock readings, 0..MaxTime, that datetime.utcnow() may return at loop start
MaxTime == 2

\* the recipes the control surface may create
RecipeNames == {"a", "b"}
\* the recipe of the single-runner specification
SoloNames == {"a"}
Times == 0..MaxTime

(***************************************************************************)
(* Python values.  A str is the sequence of its characters; a list value   *)
(* of a field (an Airtable multi-select) is modelled by its one element.   *)
(* An optional datetime is {} (None) or {t}.                               *)
(***************************************************************************)
None == [type |-> "NoneType", val |-> <<>>]
Str(s) == [type |-> "str", val |-> s]
List(s) == [type |-> "list", val |-> s]
NoTime == {}

\* dict.get(key): the value, or None when the key is absent (line 129)
Get(fields, key) == IF key \in DOMAIN fields THEN fields[key] ELSE None

\* truth value of `if record_time_str:` (line 135): None and "" are false
Truthy(v) == v.type # "NoneType" /\ v.val # <<>>

\* faulty variant of OrElse: the later of the two times
OrElse_later(x, y) ==
    {CHOOSE t \in x \cup y : \A u \in x \cup y : u <= t}
\* `x or y` on an optional datetime (line 118)
OrElse(x, y) == IF x = NoTime THEN y ELSE x

\* `text in s` on a str: text occurs in s as a contiguous run of characters
IsSubstring(text, s) ==
    \E i \in 0..(Len(s) - Len(text)) :
        \A j \in 1..Len(text) : s[i + j] = text[j]

\* `text in value` (line 145): substring of a str, membership in a list
PyIn(text, v) ==
    IF v.type = "str" THEN IsSubstring(text, v.val) ELSE text = v.val

(***************************************************************************)
(* ISO timestamps.  The string "T<d><z>" stands for an ISO-8601 time with  *)
(* clock reading d and an optional UTC-offset suffix z.                    *)
(***************************************************************************)
Digit == ("0" :> 0) @@ ("1" :> 1) @@ ("2" :> 2)

\* datetime.fromisoformat accepts the string (otherwise ValueError, line 136)
IsIsoFormat(s) ==
    /\ Len(s) \in {2, 3}
    /\ s[1] = "T"
    /\ s[2] \in DOMAIN Digit
    /\ Len(s) = 3 => s[3] = "+"

\* fromisoformat(s).replace(tzinfo=None): the clock reading, offset dropped
ParseTime(s) == Digit[s[2]]

(***************************************************************************)
(* The recipe configuration (Automation) and the remote table.             *)
(***************************************************************************)
Triggers == {"airtable_record_updated", "find_record"}
field_name == "Status"
text_to_find == <<"U", "R">>

Rec(id, fields) == [id |-> id, fields |-> fields]
LM(s) == "Last Modified" :> Str(s)

\* the records the data source may return, two ids
RecordPool ==
    { Rec("r1", "Status" :> Str(<<"U", "R", "x">>)),
      Rec("r2", "Status" :> Str(<<"d">>)),
      Rec("r1", LM(<<"T", "2">>) @@ "Status" :> Str(<<"x", "U", "R">>)),
      Rec("r2", LM(<<"T", "1", "+">>) @@ "Status" :> List(<<"U", "R">>)
                  @@ "Notes" :> Str(<<"U", "R">>)),
      Rec("r1", LM(<<"T", "0">>) @@ "Notes" :> Str(<<"U", "R">>)),
      Rec("r2", LM(<<"T", "2">>) @@ "Status" :> Str(<<"U", "d", "R">>)),
      Rec("r1", LM(<<"n", "a">>) @@ "Status" :> Str(<<"U", "R">>)) }

RecordIds == {"r1", "r2"}

\* airtable.get_all() results of the single-runner specification
Snapshots ==
    {<<>>} \cup {<<x>> : x \in RecordPool}
           \cup {<<x, y>> : x \in RecordPool, y \in RecordPool}

\* airtable.get_all() results of the two-runner specification
SmallSnapshots ==
    { <<>>,
      << Rec("r1", LM(<<"T", "2">>) @@ "Status" :> Str(<<"x", "U", "R">>)) >> }

\* status codes requests.post may return
StatusCodes == {200, 500}

(***************************************************************************)
(* State.                                                                  *)
(***************************************************************************)
VARIABLES
    recipes,              \* RecipeManager.recipes, in registration order
    trigger,              \* recipe.trigger
    is_running,           \* recipe.is_running
    is_thread_running,    \* recipe.is_thread_running
    thread,               \* the Thread object of the recipe: "initial", "started"
    last_execution_time,  \* recipe.last_execution_time
    pc,                   \* where the runner thread stands in execute_recipe
    exc,                  \* the uncaught exception that ended the runner thread
    start_time,           \* execute_recipe's local: the clock at loop start
    last_checked_time,    \* execute_recipe's local: the watermark
    processed_records,    \* execute_recipe's local: the seen set
    records,              \* execute_recipe's local: the fetched snapshot
    idx,                  \* position of the for loop in records
    cycle,                \* number of fetches the runner has begun
    firstSeen,            \* history: cycle and position at which an id first came
    sent,                 \* history: the calls of send_webhook, in order
    response,             \* history: how the last call of send_webhook ended
    stopRequested,        \* history: "no", or where the last stop request came
    main,                 \* the control thread: "prompt", "crashed", "exited"
    report,               \* what the last start_all logged and raised
    files                 \* the recipe files of the directory: {} or {content}

vars == << recipes, trigger, is_running, is_thread_running, thread,
           last_execution_time, pc, exc, start_time, last_checked_time,
           processed_records,
           records, idx, cycle, firstSeen, sent, response, stopRequested, main,
           report, files >>

managerVars == << recipes, trigger, is_thread_running, thread, main, report,
                  files >>
loopVars == << start_time, last_checked_time, processed_records, records,
               idx, cycle,
               firstSeen, sent, response >>

Never == [cycle |-> 0, pos |-> 0]
NoReport == [aggregate |-> FALSE, started |-> {}, already |-> {}, raised |-> {}]

\* RecipeManager.__init__ in a directory that holds no recipe file
Init ==
    /\ recipes = <<>>
    /\ trigger = [r \in RecipeNames |-> "airtable_record_updated"]
    /\ is_running = [r \in RecipeNames |-> FALSE]
    /\ is_thread_running = [r \in RecipeNames |-> FALSE]
    /\ thread = [r \in RecipeNames |-> "initial"]
    /\ last_execution_time = [r \in RecipeNames |-> NoTime]
    /\ pc = [r \in RecipeNames |-> "unstarted"]
    /\ exc = [r \in RecipeNames |-> "none"]
    /\ start_time = [r \in RecipeNames |-> 0]
    /\ last_checked_time = [r \in RecipeNames |-> 0]
    /\ processed_records = [r \in RecipeNames |-> {}]
    /\ records = [r \in RecipeNames |-> <<>>]
    /\ idx = [r \in RecipeNames |-> 1]
    /\ cycle = [r \in RecipeNames |-> 0]
    /\ firstSeen = [r \in RecipeNames |-> [i \in RecordIds |-> Never]]
    /\ sent = [r \in RecipeNames |-> <<>>]
    /\ response = [r \in RecipeNames |-> 0]
    /\ stopRequested = [r \in RecipeNames |-> "no"]
    /\ main = "prompt"
    /\ report = NoReport
    /\ files = [r \in RecipeNames |-> {}]

Registered == {recipes[i] : i \in 1..Len(recipes)}

(***************************************************************************)
(* The recipe object and its file.                                         *)
(***************************************************************************)
\* the parameters of Automation.__init__, line 29
InitParams ==
    {"trigger", "action", "webhook_url", "base_key", "table_name", "api_key",
     "field_name", "text_to_find", "name"}

\* lines 29-39 hold no check of their arguments: the constructor never raises
InitRaises(t) == FALSE

\* Automation.__init__ on keyword arguments: vars() of the new object.  A
\* parameter that is not given takes its default None; line 39 sets
\* last_execution_time to None
NewAutomation(kwargs) ==
    [k \in InitParams |-> Get(kwargs, k)] @@ ("last_execution_time" :> None)

\* the object create_recipe returns (line 91) for trigger t and name r
Automation(t, r) ==
    NewAutomation(
        [trigger |-> Str(<<t>>), action |-> Str(<<"send_webhook">>),
         webhook_url |-> Str(<<"h">>), base_key |-> Str(<<"k">>),
         table_name |-> Str(<<"t">>), api_key |-> Str(<<"p">>),
         field_name |-> IF t = "find_record" THEN Str(<<field_name>>) ELSE None,
         text_to_find |-> IF t = "find_record" THEN Str(text_to_find) ELSE None,
         name |-> Str(<<r>>)])

\* json.dump of one value: None is written as null, a str as a string
JsonDump(v) ==
    IF v.type = "NoneType" THEN [json |-> "null", val |-> <<>>]
    ELSE [json |-> "string", val |-> v.val]

\* json.load of one value
JsonLoad(j) == IF j.json = "null" THEN None ELSE Str(j.val)

\* save_recipe, line 57: the JSON object of vars(recipe), every attribute
save_recipe(recipe) == [k \in DOMAIN recipe |-> JsonDump(recipe[k])]

\* load_recipe, lines 62-63: Automation(**recipe_data) raises TypeError on a
\* key that is no parameter of __init__
load_recipe(file) ==
    LET recipe_data == [k \in DOMAIN file |-> JsonLoad(file[k])]
    IN  IF DOMAIN recipe_data \subseteq InitParams
        THEN [raised |-> "none", recipe |-> NewAutomation(recipe_data)]
        ELSE [raised |-> "TypeError", recipe |-> <<>>]

(***************************************************************************)
(* The control thread.                                                     *)
(***************************************************************************)
\* main's 'create' command: Automation(...), save_recipe of the new object,
\* then RecipeManager.add_recipe.  A recipe object is identified by its name.
add_recipe(r, t) ==
    /\ main = "prompt"
    /\ r \notin Registered
    /\ ~InitRaises(t)
    /\ files' = [files EXCEPT ![r] = {save_recipe(Automation(t, r))}]
    /\ recipes' = Append(recipes, r)
    /\ trigger' = [trigger EXCEPT ![r] = t]
    /\ is_running' = [is_running EXCEPT ![r] = FALSE]
    /\ is_thread_running' = [is_thread_running EXCEPT ![r] = FALSE]
    /\ thread' = [thread EXCEPT ![r] = "initial"]
    /\ UNCHANGED << last_execution_time, pc, exc, loopVars, stopRequested,
                    main, report >>

\* Automation(...) by a caller other than create_recipe, then
\* RecipeManager.add_recipe (lines 164-169), which sets the two flags and
\* makes the Thread and leaves every other attribute of the object alone
add_object(r, t, let) ==
    /\ main = "prompt"
    /\ r \notin Registered
    /\ ~InitRaises(t)
    /\ recipes' = Append(recipes, r)
    /\ trigger' = [trigger EXCEPT ![r] = t]
    /\ is_running' = [is_running EXCEPT ![r] = FALSE]
    /\ is_thread_running' = [is_thread_running EXCEPT ![r] = FALSE]
    /\ thread' = [thread EXCEPT ![r] = "initial"]
    /\ last_execution_time' = [last_execution_time EXCEPT ![r] = let]
    /\ UNCHANGED << pc, exc, loopVars, stopRequested, main, report, files >>

\* faulty variant of ShouldStart: the flag is not consulted
ShouldStart_unchecked(r) == TRUE
\* line 176: the recipe is started unless its flag says it is running
ShouldStart(r) == ~is_running[r]

\* Thread.start() on a thread that was started before raises RuntimeError
StartRaises(r) == ShouldStart(r) /\ thread[r] = "started"

\* the position in recipes at which start_all's loop is left by RuntimeError,
\* Len(recipes) + 1 when it runs to its end
RaiseAt ==
    LET bad == {i \in 1..Len(recipes) : StartRaises(recipes[i])}
    IN  IF bad = {} THEN Len(recipes) + 1
        ELSE CHOOSE i \in bad : \A j \in bad : i <= j

\* RecipeManager.start_all, as one step of the control thread.  It reads and
\* writes, per recipe, only that recipe's flags and thread; a runner the loop
\* has just started writes TRUE at line 113 as line 180 does; and a runner
\* that writes its flag while the loop runs could as well have written it
\* before the call.  An uncaught RuntimeError ends start_all and main().
start_all ==
    /\ main = "prompt"
    /\ IF \A i \in 1..Len(recipes) : is_running[recipes[i]]
       THEN /\ report' = [NoReport EXCEPT !.aggregate = TRUE]
            /\ UNCHANGED << is_running, is_thread_running, thread, pc, main >>
       ELSE LET k == RaiseAt
                reached == {recipes[i] : i \in 1..(k - 1)}
                starts == {r \in reached : ShouldStart(r)}
            IN  /\ thread' = [r \in RecipeNames |->
                        IF r \in starts THEN "started" ELSE thread[r]]
                /\ pc' = [r \in RecipeNames |->
                        IF r \in starts THEN "l113" ELSE pc[r]]
                /\ is_running' = [r \in RecipeNames |->
                        IF r \in starts THEN TRUE ELSE is_running[r]]
                /\ is_thread_running' = [r \in RecipeNames |->
                        IF r \in starts THEN TRUE ELSE is_thread_running[r]]
                /\ report' = [aggregate |-> FALSE,
                              started |-> starts,
                              already |-> reached \ starts,
                              raised |-> IF k <= Len(recipes)
                                         THEN {recipes[k]} ELSE {}]
                /\ main' = IF k <= Len(recipes) THEN "crashed" ELSE "prompt"
    /\ UNCHANGED << recipes, trigger, last_execution_time, exc, loopVars,
                    stopRequested, files >>

\* main's 'exit' command, line 234: sys.exit(0) ends the control thread; the
\* runner threads are not daemons and are not touched
exit ==
    /\ main = "prompt"
    /\ main' = "exited"
    /\ UNCHANGED << recipes, trigger, is_running, is_thread_running, thread,
                    last_execution_time, pc, exc, loopVars, stopRequested,
                    report, files >>

\* history: where the runner stands when a stop is requested.  "early":
\* before its first fetch began; "midcycle": in the for loop; "endcycle":
\* after the for loop, before the flag is polled; "between": after the poll
StopPoint(r) ==
    IF cycle[r] = 0 THEN "early"
    ELSE IF pc[r] = "records" THEN "midcycle"
    ELSE IF pc[r] = "l151" THEN "endcycle"
    ELSE "between"

\* requestStop() of the runner state machine: clears the flag the loop polls
requestStop(r) ==
    /\ main = "prompt"
    /\ r \in Registered
    /\ is_running[r]
    /\ is_running' = [is_running EXCEPT ![r] = FALSE]
    /\ stopRequested' = [stopRequested EXCEPT ![r] = StopPoint(r)]
    /\ UNCHANGED << managerVars, last_execution_time, pc, exc, loopVars >>

(***************************************************************************)
(* The trigger evaluation of execute_recipe, lines 135-147.                *)
(***************************************************************************)
\* faulty variant of UpdatedFires: a timestamp equal to the watermark fires
UpdatedFires_inclusive(trig, record_time, watermark) ==
    trig = "airtable_record_updated" /\ record_time >= watermark
\* line 139
UpdatedFires(trig, record_time, watermark) ==
    trig = "airtable_record_updated" /\ record_time > watermark

\* faulty variant of TextFires: the value's type is not tested
TextFires_untyped(trig, fields) ==
    /\ trig = "find_record"
    /\ field_name \in DOMAIN fields
    /\ PyIn(text_to_find, fields[field_name])
\* lines 143-145
TextFires(trig, fields) ==
    /\ trig = "find_record"
    /\ field_name \in DOMAIN fields
    /\ fields[field_name].type = "str"
    /\ PyIn(text_to_find, fields[field_name])

\* lines 135-147: the record's evaluation calls send_webhook.  The branch
\* on the trigger lies inside `if record_time_str:`.
Fires(trig, rec, watermark) ==
    LET record_time_str == Get(rec.fields, "Last Modified")
    IN  /\ Truthy(record_time_str)
        /\ IsIsoFormat(record_time_str.val)
        /\ \/ UpdatedFires(trig, ParseTime(record_time_str.val), watermark)
           \/ TextFires(trig, rec.fields)

\* line 136 raises ValueError: the timestamp is there and is not ISO-8601
ParseRaises(rec) ==
    LET record_time_str == Get(rec.fields, "Last Modified")
    IN  Truthy(record_time_str) /\ ~IsIsoFormat(record_time_str.val)

(***************************************************************************)
(* The runner thread: execute_recipe.                                      *)
(***************************************************************************)
InLoop(r) == pc[r] \in {"fetch", "records", "l151", "sleep"}

\* lines 113-119: the flag is set, the watermark and the seen set are made
Begin(r, now) ==
    /\ pc[r] = "l113"
    /\ is_running' = [is_running EXCEPT ![r] = TRUE]
    /\ start_time' = [start_time EXCEPT ![r] = now]
    /\ last_checked_time' = [last_checked_time EXCEPT
          ![r] = CHOOSE t \in OrElse(last_execution_time[r], {now}) : TRUE]
    /\ processed_records' = [processed_records EXCEPT ![r] = {}]
    /\ pc' = [pc EXCEPT ![r] = "fetch"]
    /\ UNCHANGED << managerVars, last_execution_time, exc, records, idx, cycle,
                    firstSeen, sent, response, stopRequested >>

\* history: a fetch begins; a stop that came between cycles and is pending
\* has now had its one further fetch
FetchBegins(r) ==
    stopRequested' = [stopRequested EXCEPT
        ![r] = IF @ = "between" /\ ~is_running[r] THEN "refetched" ELSE @]

\* lines 123-126: airtable.get_all() returns the snapshot and the for loop
\* is entered; over an empty snapshot it has no iteration
Fetch(r, snapshot) ==
    /\ pc[r] = "fetch"
    /\ records' = [records EXCEPT ![r] = snapshot]
    /\ idx' = [idx EXCEPT ![r] = 1]
    /\ cycle' = [cycle EXCEPT ![r] = @ + 1]
    /\ firstSeen' = [firstSeen EXCEPT ![r] =
          [i \in RecordIds |->
              LET at == {k \in 1..Len(snapshot) : snapshot[k].id = i}
              IN  IF @[i] = Never /\ at # {}
                  THEN [cycle |-> cycle[r] + 1,
                        pos |-> CHOOSE k \in at : \A j \in at : k <= j]
                  ELSE @[i]]]
    /\ pc' = [pc EXCEPT ![r] = IF snapshot = <<>> THEN "l151" ELSE "records"]
    /\ FetchBegins(r)
    /\ UNCHANGED << managerVars, is_running, last_execution_time, exc,
                    start_time, last_checked_time, processed_records, sent, response >>

\* line 123 raises: nothing in execute_recipe catches, the thread ends
FetchRaises(r) ==
    /\ pc[r] = "fetch"
    /\ cycle' = [cycle EXCEPT ![r] = @ + 1]
    /\ pc' = [pc EXCEPT ![r] = "crashed"]
    /\ exc' = [exc EXCEPT ![r] = "SourceUnavailableError"]
    /\ FetchBegins(r)
    /\ UNCHANGED << managerVars, is_running, last_execution_time,
                    start_time, last_checked_time, processed_records, records, idx,
                    firstSeen, sent, response >>

\* faulty variant of AfterRecord: the stop flag is polled after every record
AfterRecord_polling(r) ==
    IF ~is_running[r] THEN "l156"
    ELSE IF idx[r] < Len(records[r]) THEN "records" ELSE "l151"
\* line 126: the for loop goes to the next record, or ends
AfterRecord(r) == IF idx[r] < Len(records[r]) THEN "records" ELSE "l151"

\* faulty variant of Skip: one seen set for all runners
Skip_shared(r, record_id) ==
    \E q \in RecipeNames : record_id \in processed_records[q]
\* faulty variant of Skip: the seen set is not consulted
Skip_never(r, record_id) == FALSE
\* line 131
Skip(r, record_id) == record_id \in processed_records[r]

\* faulty variant of Processed: the seen set keeps the last id only
Processed_lastOnly(r, record_id) ==
    /\ processed_records' = [processed_records EXCEPT ![r] = {record_id}]
    /\ idx' = [idx EXCEPT ![r] = @ + 1]
    /\ pc' = [pc EXCEPT ![r] = AfterRecord(r)]
\* line 149 and the next iteration
Processed(r, record_id) ==
    /\ processed_records' = [processed_records EXCEPT ![r] = @ \cup {record_id}]
    /\ idx' = [idx EXCEPT ![r] = @ + 1]
    /\ pc' = [pc EXCEPT ![r] = AfterRecord(r)]

\* an exception leaves execute_recipe: the thread ends where it stands
Raise(r, e) ==
    /\ pc' = [pc EXCEPT ![r] = "crashed"]
    /\ exc' = [exc EXCEPT ![r] = e]
    /\ UNCHANGED << processed_records, idx >>

\* lines 141, 147: send_webhook is called with the record as payload; it
\* ends with the status code requests.post returned, 0 when that raised
send_webhook(r, record, status) ==
    /\ sent' = [sent EXCEPT ![r] = Append(@,
          [record |-> record, cycle |-> cycle[r], pos |-> idx[r]])]
    /\ response' = [response EXCEPT ![r] = status]

\* lines 126-149: one iteration of the for loop
Record(r, codes) ==
    /\ pc[r] = "records"
    /\ LET record == records[r][idx[r]]
           record_id == record.id
       IN  \/ /\ Skip(r, record_id)
              /\ idx' = [idx EXCEPT ![r] = @ + 1]
              /\ pc' = [pc EXCEPT ![r] = AfterRecord(r)]
              /\ UNCHANGED << processed_records, exc, sent, response >>
           \/ /\ ~Skip(r, record_id)
              /\ ParseRaises(record)
              /\ Raise(r, "ValueError")
              /\ UNCHANGED << sent, response >>
           \/ /\ ~Skip(r, record_id)
              /\ ~ParseRaises(record)
              /\ ~Fires(trigger[r], record, last_checked_time[r])
              /\ Processed(r, record_id)
              /\ UNCHANGED << exc, sent, response >>
           \/ /\ ~Skip(r, record_id)
              /\ Fires(trigger[r], record, last_checked_time[r])
              /\ \E code \in codes : send_webhook(r, record, code)
              /\ Processed(r, record_id)
              /\ UNCHANGED exc
           \/ /\ ~Skip(r, record_id)
              /\ Fires(trigger[r], record, last_checked_time[r])
              /\ send_webhook(r, record, 0)
              /\ Raise(r, "DeliveryError")
    /\ UNCHANGED << managerVars, is_running, last_execution_time,
                    start_time, last_checked_time, records, cycle, firstSeen, stopRequested >>

\* faulty variant of EndCycle: the watermark moves on at the end of a cycle
EndCycle_advancing(r) ==
    /\ pc[r] = "l151"
    /\ last_checked_time' = [last_checked_time EXCEPT ![r] = @ + 1]
    /\ last_execution_time' = [last_execution_time EXCEPT
                                  ![r] = {last_checked_time[r] + 1}]
    /\ pc' = [pc EXCEPT ![r] = IF ~is_running[r] THEN "l156" ELSE "sleep"]
    /\ UNCHANGED << managerVars, is_running, exc, start_time,
                    processed_records, records, idx, cycle, firstSeen, sent,
                    response, stopRequested >>
\* faulty variant of EndCycle: the flag is not polled
EndCycle_unpolled(r) ==
    /\ pc[r] = "l151"
    /\ last_execution_time' = [last_execution_time EXCEPT
                                  ![r] = {last_checked_time[r]}]
    /\ pc' = [pc EXCEPT ![r] = "sleep"]
    /\ UNCHANGED << managerVars, is_running, exc, loopVars, stopRequested >>
\* lines 151-153: the watermark is written back and the flag is polled
EndCycle(r) ==
    /\ pc[r] = "l151"
    /\ last_execution_time' = [last_execution_time EXCEPT
                                  ![r] = {last_checked_time[r]}]
    /\ pc' = [pc EXCEPT ![r] = IF ~is_running[r] THEN "l156" ELSE "sleep"]
    /\ UNCHANGED << managerVars, is_running, exc, loopVars, stopRequested >>

\* line 154: time.sleep(10) returns
Wake(r) ==
    /\ pc[r] = "sleep"
    /\ cycle[r] < MaxCycles
    /\ pc' = [pc EXCEPT ![r] = "fetch"]
    /\ UNCHANGED << managerVars, is_running, last_execution_time, exc,
                    loopVars, stopRequested >>

\* line 156: the loop was left by the break
Finish(r) ==
    /\ pc[r] = "l156"
    /\ is_running' = [is_running EXCEPT ![r] = FALSE]
    /\ pc' = [pc EXCEPT ![r] = "stopped"]
    /\ UNCHANGED << managerVars, last_execution_time, exc, loopVars,
                    stopRequested >>

(***************************************************************************)
(* Specifications.  Spec: one recipe of either trigger, every snapshot of  *)
(* up to two records of RecordPool, every clock reading.  Pair: two        *)
(* find_record recipes on one table, the snapshots of SmallSnapshots, one  *)
(* clock reading, one status code, and main's exit.  Open: one recipe,    *)
(* created by main or handed to the manager as an object of any trigger    *)
(* string and any last_execution_time.                                     *)
(***************************************************************************)
Step(names, triggers, times, snapshots, codes) ==
    \/ \E r \in names, t \in triggers : add_recipe(r, t)
    \/ start_all
    \/ \E r \in names : requestStop(r)
    \/ \E r \in names, t \in times : Begin(r, t)
    \/ \E r \in names, s \in snapshots : Fetch(r, s)
    \/ \E r \in names : FetchRaises(r)
    \/ \E r \in names : Record(r, codes)
    \/ \E r \in names : EndCycle(r)
    \/ \E r \in names : Wake(r)
    \/ \E r \in names : Finish(r)

Next == Step(SoloNames, Triggers, Times, Snapshots, StatusCodes)
Spec == Init /\ [][Next]_vars

PairNext ==
    \/ Step(RecipeNames, {"find_record"}, {0}, SmallSnapshots, {200})
    \/ exit
Pair == Init /\ [][PairNext]_vars

\* trigger strings a caller of Automation(...) may pass
AnyTriggers == Triggers \cup {"record_deleted"}
\* values of recipe.last_execution_time a recipe object may hold
Persisted == {NoTime} \cup {{t} : t \in Times}

OpenNext ==
    \/ \E r \in SoloNames, t \in AnyTriggers, let \in Persisted :
            add_object(r, t, let)
    \/ Step(SoloNames, Triggers, Times, SmallSnapshots, {200})
Open == Init /\ [][OpenNext]_vars

(***************************************************************************)
(* Vocabulary of the properties.                                           *)
(***************************************************************************)
\* runner r takes the for loop's iteration on records[r][idx[r]] in this step
RecordStep(r) ==
    /\ pc[r] = "records"
    /\ idx'[r] # idx[r] \/ pc'[r] # pc[r]

\* the record the for loop of r stands at
Current(r) == records[r][idx[r]]

\* send_webhook is called in this step, for the record the loop stands at
Dispatches(r) ==
    /\ Len(sent'[r]) = Len(sent[r]) + 1
    /\ sent'[r][Len(sent'[r])].record = Current(r)

SentIds(r) == {sent[r][i].record.id : i \in 1..Len(sent[r])}

\* the record carries a last-modified timestamp
HasTimestamp(rec) ==
    /\ "Last Modified" \in DOMAIN rec.fields
    /\ rec.fields["Last Modified"].type = "str"
    /\ IsIsoFormat(rec.fields["Last Modified"].val)

TimestampOf(rec) == ParseTime(rec.fields["Last Modified"].val)

\* the record's field_name holds a text of which text_to_find is a substring
TextMatches(rec) ==
    /\ field_name \in DOMAIN rec.fields
    /\ rec.fields[field_name].type = "str"
    /\ IsSubstring(text_to_find, rec.fields[field_name].val)

\* lifecycle of a runner, from the flags and the thread
Stopping(r) == stopRequested[r] # "no" /\ ~is_running[r] /\ InLoop(r)

(***************************************************************************)
(* C1.  Within one runner there is at most one dispatch per record id, and *)
(* it happens where the id is first observed: in the first cycle whose     *)
(* snapshot holds the id, for the first record of that snapshot with the   *)
(* id.  A record that did not fire there never fires later.                *)
(***************************************************************************)
C1_AtMostOncePerRecord ==
    \A r \in RecipeNames :
        \A i, j \in 1..Len(sent[r]) :
            /\ sent[r][i].record.id = sent[r][j].record.id => i = j
            /\ firstSeen[r][sent[r][i].record.id] =
                  [cycle |-> sent[r][i].cycle, pos |-> sent[r][i].pos]

\* the second cycle is over, its snapshot held a record that satisfies the
\* trigger, and the record's id had its one dispatch in the first cycle
C1_Witness ==
    \E r \in RecipeNames :
        /\ pc[r] = "sleep"
        /\ cycle[r] = 2
        /\ \E k \in 1..Len(records[r]) :
             /\ Fires(trigger[r], records[r][k], last_checked_time[r])
             /\ \E i \in 1..Len(sent[r]) :
                  /\ sent[r][i].record.id = records[r][k].id
                  /\ sent[r][i].cycle = 1

(***************************************************************************)
(* C2.  Under find_record every not-yet-seen record whose field_name holds *)
(* a text containing text_to_find is dispatched when the loop evaluates    *)
(* it, whatever the watermark and whether or not it has a last-modified    *)
(* timestamp.                                                              *)
(***************************************************************************)
C2_TextMatchFires ==
    [][\A r \in RecipeNames :
          ( /\ RecordStep(r)
            /\ trigger[r] = "find_record"
            /\ Current(r).id \notin processed_records[r]
            /\ TextMatches(Current(r)) )
          => Dispatches(r)]_vars

(***************************************************************************)
(* C3.  Under find_record a record whose fields do not hold field_name, or *)
(* hold a value there that is not text, is never dispatched, also when     *)
(* text_to_find occurs in another field.                                   *)
(***************************************************************************)
C3_NoFieldNoDispatch ==
    \A r \in RecipeNames :
        trigger[r] = "find_record" =>
            \A i \in 1..Len(sent[r]) :
                /\ field_name \in DOMAIN sent[r][i].record.fields
                /\ sent[r][i].record.fields[field_name].type = "str"

\* a find_record runner evaluated, without a dispatch, a record with a
\* timestamp whose field_name holds a list with text_to_find in it and whose
\* other field holds the text
C3_Witness ==
    \E r \in RecipeNames :
        /\ trigger[r] = "find_record"
        /\ pc[r] = "l151"
        /\ \E k \in 1..Len(records[r]) :
             LET rec == records[r][k]
             IN  /\ HasTimestamp(rec)
                 /\ field_name \in DOMAIN rec.fields
                 /\ rec.fields[field_name].type = "list"
                 /\ PyIn(text_to_find, rec.fields[field_name])
                 /\ "Notes" \in DOMAIN rec.fields
                 /\ firstSeen[r][rec.id] = [cycle |-> cycle[r], pos |-> k]
                 /\ rec.id \in processed_records[r]
                 /\ rec.id \notin SentIds(r)

(***************************************************************************)
(* C4.  Under airtable_record_updated a not-yet-seen record is dispatched  *)
(* when the loop evaluates it if and only if it carries a last-modified    *)
(* timestamp and that timestamp is strictly greater than the watermark.    *)
(***************************************************************************)
C4_UpdatedFiresIffLater ==
    [][\A r \in RecipeNames :
          ( /\ RecordStep(r)
            /\ trigger[r] = "airtable_record_updated"
            /\ Current(r).id \notin processed_records[r] )
          => ( Dispatches(r) <=>
                  /\ HasTimestamp(Current(r))
                  /\ TimestampOf(Current(r)) > last_checked_time[r] )]_vars

\* one cycle of an airtable_record_updated runner evaluated a record whose
\* timestamp equals the watermark without a dispatch and dispatched another
C4_Witness ==
    \E r \in RecipeNames :
        /\ trigger[r] = "airtable_record_updated"
        /\ pc[r] = "l151"
        /\ cycle[r] = 1
        /\ Len(sent[r]) = 1
        /\ \E k \in 1..Len(records[r]) :
             /\ HasTimestamp(records[r][k])
             /\ TimestampOf(records[r][k]) = last_checked_time[r]
             /\ records[r][k].id \in processed_records[r]
             /\ records[r][k].id \notin SentIds(r)

(***************************************************************************)
(* C5.  A fetch that raises does not stop the runner: the runner stays in  *)
(* its loop with flag, seen set and watermark as they were, sleeps, and    *)
(* fetches again.                                                          *)
(***************************************************************************)
C5_FetchFailureIsRetried ==
    [][\A r \in RecipeNames :
          (pc[r] = "fetch" /\ exc'[r] = "SourceUnavailableError")
          => /\ pc'[r] = "sleep"
             /\ is_running'[r] = is_running[r]
             /\ processed_records'[r] = processed_records[r]
             /\ last_checked_time'[r] = last_checked_time[r]]_vars

(***************************************************************************)
(* C6.  When a delivery fails, by an exception or by a status that is not  *)
(* 2xx, the runner goes on with the next record of the snapshot and the    *)
(* record is marked seen.                                                  *)
(***************************************************************************)
C6_DeliveryFailureContinues ==
    [][\A r \in RecipeNames :
          ( /\ RecordStep(r)
            /\ Dispatches(r)
            /\ response'[r] \notin 200..299 )
          => /\ pc'[r] \in {"records", "l151"}
             /\ idx'[r] = idx[r] + 1
             /\ Current(r).id \in processed_records'[r]]_vars

(***************************************************************************)
(* C7.  A runner leaves its loop by the stop flag only with the cycle      *)
(* complete: every record of the snapshot is evaluated and every record    *)
(* that satisfies the trigger where its id is first observed is            *)
(* dispatched, also when the stop was requested in the middle of the       *)
(* cycle.                                                                  *)
(***************************************************************************)
C7_StopCompletesCycle ==
    \A r \in RecipeNames :
        pc[r] \in {"l156", "stopped"} =>
            /\ idx[r] = Len(records[r]) + 1
            /\ \A k \in 1..Len(records[r]) :
                 /\ records[r][k].id \in processed_records[r]
                 /\ ( /\ firstSeen[r][records[r][k].id] =
                            [cycle |-> cycle[r], pos |-> k]
                      /\ Fires(trigger[r], records[r][k], last_checked_time[r]) )
                    => \E i \in 1..Len(sent[r]) :
                          /\ sent[r][i].record = records[r][k]
                          /\ sent[r][i].cycle = cycle[r]
                          /\ sent[r][i].pos = k

\* the stop came in the middle of a cycle, the runner is Stopped, and the
\* last record of that cycle's snapshot was dispatched
C7_Witness ==
    \E r \in RecipeNames :
        /\ pc[r] = "stopped"
        /\ stopRequested[r] = "midcycle"
        /\ Len(records[r]) = 2
        /\ \E i \in 1..Len(sent[r]) :
             /\ sent[r][i].cycle = cycle[r]
             /\ sent[r][i].pos = 2

(***************************************************************************)
(* C8.  A stop request on a started runner is never lost: once the flag is *)
(* cleared by the request it stays cleared, so the loop's next poll of it  *)
(* ends the loop.                                                          *)
(***************************************************************************)
C8_StopRequestNotLost ==
    [][\A r \in RecipeNames :
          (stopRequested[r] # "no" /\ ~is_running[r]) => ~is_running'[r]]_vars

(***************************************************************************)
(* C9.  start_all on a recipe whose flag says running starts nothing for   *)
(* it, leaves its flags, thread and loop as they are, and raises nothing   *)
(* for it.  As long as no stop was ever requested, start_all raises        *)
(* nothing at all and reports every such recipe as already running, by one *)
(* aggregate message exactly when every recipe is running.                 *)
(***************************************************************************)
C9_StartIsIdempotent ==
    [][start_all =>
          /\ \A r \in Registered :
                is_running[r] =>
                   /\ thread'[r] = thread[r]
                   /\ pc'[r] = pc[r]
                   /\ is_running'[r]
                   /\ is_thread_running'[r] = is_thread_running[r]
                   /\ r \notin report'.raised
                   /\ r \notin report'.started
          /\ (\A r \in RecipeNames : stopRequested[r] = "no") =>
                /\ main' = "prompt"
                /\ report'.raised = {}
                /\ report'.aggregate <=> \A r \in Registered : is_running[r]
                /\ ~report'.aggregate =>
                      report'.already = {r \in Registered : is_running[r]}
                /\ report'.aggregate =>
                      report'.already = {} /\ report'.started = {}]_vars

\* start_all has just started b and reported a, which was running
C9_Witness ==
    /\ recipes = <<"a", "b">>
    /\ report.already = {"a"}
    /\ report.started = {"b"}
    /\ pc["a"] = "sleep"
    /\ pc["b"] = "l113"
    /\ \A r \in RecipeNames : stopRequested[r] = "no"

(***************************************************************************)
(* C10.  start_all while a runner is Stopping raises no error for it,      *)
(* starts nothing, and leaves the pending stop request in place.           *)
(***************************************************************************)
C10_StartWhileStoppingIsNoOp ==
    [][\A r \in RecipeNames :
          (start_all /\ r \in Registered /\ Stopping(r))
          => /\ r \notin report'.raised
             /\ main' = "prompt"
             /\ thread'[r] = thread[r]
             /\ pc'[r] = pc[r]
             /\ ~is_running'[r]]_vars

(***************************************************************************)
(* C11.  start_all starts every runner that is Idle when it is called:     *)
(* after the call each of them is Running, whatever the lifecycle state of *)
(* the other managed runners, and a runner that was started before         *)
(* (Running, Stopping or Stopped) is not started again.                    *)
(* Does not hold: see C10, the RuntimeError of a Stopping or Stopped       *)
(* runner ends the loop of start_all before the recipes behind it.         *)
(***************************************************************************)
Idle(r) == r \in Registered /\ thread[r] = "initial"

C11_StartAllStartsEveryIdle ==
    [][start_all =>
          \A r \in Registered :
             /\ Idle(r) => thread'[r] = "started" /\ is_running'[r]
                            /\ pc'[r] = "l113"
             /\ ~Idle(r) => pc'[r] = pc[r] /\ thread'[r] = thread[r]]_vars

(***************************************************************************)
(* C12.  In every reachable state status() labels each managed recipe with *)
(* the last lifecycle transition of its runner: "stopped" for a recipe     *)
(* that was registered and never started and for a runner whose poll loop  *)
(* has ended by a stop (Stopped), "running" for a runner whose poll loop   *)
(* is active.                                                              *)
(* Does not hold: is_thread_running is set at line 181 and never cleared.  *)
(***************************************************************************)
\* RecipeManager.log_status, line 187: the label printed for each recipe
log_status ==
    [r \in Registered |-> IF is_thread_running[r] THEN "running" ELSE "stopped"]

\* the poll loop of the runner is active
Active(r) == pc[r] = "l113" \/ InLoop(r) \/ pc[r] = "l156"

C12_StatusLabelsLifecycle ==
    \A r \in Registered :
       /\ Idle(r) => log_status[r] = "stopped"
       /\ pc[r] = "stopped" => log_status[r] = "stopped"
       /\ Active(r) => log_status[r] = "running"

(***************************************************************************)
(* C13.  As claimed: at loop start the watermark is set to the later of    *)
(* the previously persisted last_execution_time and the loop-start time,   *)
(* and to the loop-start time when no execution time was persisted.        *)
(* Line 118 takes the persisted time whenever there is one, also when the  *)
(* loop starts later than it.                                              *)
(***************************************************************************)
LoopStart(r) == pc[r] = "l113" /\ pc'[r] = "fetch"

CycleCompleted(r) == cycle[r] > 0 /\ pc[r] \in {"l151", "sleep", "l156", "stopped"}

\* the ids the fetches of the runner have returned so far
Fetched(r) == {i \in RecordIds : firstSeen[r][i] # Never}

C14_SeenSetIsEveryFetchedId ==
    \A r \in Registered :
       /\ processed_records[r] \subseteq Fetched(r)
       /\ CycleCompleted(r) => processed_records[r] = Fetched(r)

\* two cycles are completed, of the two ids one was dispatched and one not
C14_Witness ==
    \E r \in Registered :
       /\ cycle[r] = 2 /\ CycleCompleted(r)
       /\ processed_records[r] = RecordIds
       /\ SentIds(r) # {} /\ SentIds(r) # RecordIds

(***************************************************************************)
(* C15.  Constructing an Automation with a trigger other than              *)
(* airtable_record_updated and find_record fails at construction, so a     *)
(* recipe of an unknown trigger is never registered and never run.         *)
(* Does not hold: Automation.__init__ stores its arguments unchecked.      *)
(***************************************************************************)
C15_UnknownTriggerNeverRegistered ==
    \A r \in Registered : trigger[r] \in Triggers

(***************************************************************************)
(* C16.  Persistence round trip: the file save_recipe writes for a recipe  *)
(* is a flat record of the ten fields trigger, action, webhook_url,        *)
(* base_key, table_name, api_key, field_name, text_to_find, name and       *)
(* last_execution_time; load_recipe accepts it and yields a recipe with    *)
(* the same ten values.                                                    *)
(* Does not hold: load_recipe raises TypeError on every file save_recipe   *)
(* has written.                                                            *)
(***************************************************************************)
C16_SavedRecipeLoads ==
    \A r \in RecipeNames :
       \A file \in files[r] :
          /\ DOMAIN file = InitParams \cup {"last_execution_time"}
          /\ load_recipe(file).raised = "none"
          /\ load_recipe(file).recipe = Automation(trigger[r], r)

(***************************************************************************)
(* C17.  At process-level shutdown (the exit command) a stop is requested  *)
(* on every runner and every runner thread terminates: no poll loop is     *)
(* left active with its flag set once main has exited.                     *)
(* Does not hold: line 234 is sys.exit(0) alone; no flag is cleared and no *)
(* thread is joined, and the runner threads are not daemons.               *)
(***************************************************************************)
C17_ExitStopsEveryRunner ==
    main = "exited" =>
       \A r \in Registered : Active(r) => ~is_running[r]

(***************************************************************************)
(* C18.  Once set at loop start the watermark is changed by no cycle, and  *)
(* the value written back to recipe.last_execution_time at the end of      *)
(* every cycle is that initial watermark, which for a recipe main created  *)
(* is the loop-start time.                                                 *)
(***************************************************************************)
\* the runner is past its loop start
Begun(r) == pc[r] \notin {"unstarted", "l113"}

\* the runner passes line 151 in this step
WritesBack(r) == pc[r] = "l151" /\ pc'[r] # "l151"

C18_WatermarkIsHeld ==
    [][\A r \in Registered :
          /\ Begun(r) => /\ last_checked_time'[r] = last_checked_time[r]
                         /\ last_checked_time[r] = start_time[r]
          /\ WritesBack(r) => last_execution_time'[r] = {start_time[r]}
          /\ ~WritesBack(r) => last_execution_time'[r] = last_execution_time[r]
      ]_vars

\* two cycles have ended, a record later than the watermark was dispatched,
\* and the time written back is the loop-start time
C18_Witness ==
    \E r \in Registered :
       /\ cycle[r] = 2 /\ pc[r] = "sleep"
       /\ start_time[r] = 1
       /\ last_execution_time[r] = {1}
       /\ trigger[r] = "airtable_record_updated"
       /\ sent[r] # <<>>

(***************************************************************************)
(* C19.  Runners are isolated: the seen set and the watermark of a runner  *)
(* are changed by steps of its own loop only, a record id one runner has   *)
(* evaluated is not thereby seen by another, and two recipes polling the   *)
(* same table each dispatch for a matching record as if alone.             *)
(***************************************************************************)
\* the step is none of runner r's loop
NotAStepOf(r) == pc'[r] = pc[r] /\ idx'[r] = idx[r]

C19_RunnersAreIsolated ==
    [][\A r \in Registered :
          /\ NotAStepOf(r) =>
                /\ processed_records'[r] = processed_records[r]
                /\ last_checked_time'[r] = last_checked_time[r]
                /\ sent'[r] = sent[r]
          /\ ( /\ RecordStep(r)
               /\ Current(r).id \notin processed_records[r]
               /\ Fires(trigger[r], Current(r), last_checked_time[r]) )
             => Dispatches(r)]_vars

\* both runners have dispatched for the same record of the shared table, the
\* second after the first had it in its seen set
C19_Witness ==
    \E r \in Registered, q \in Registered :
       /\ q # r
       /\ "r1" \in SentIds(r) /\ "r1" \in SentIds(q)
       /\ firstSeen[q]["r1"].cycle = 2
       /\ cycle[r] = 1 /\ "r1" \in processed_records[r]

(***************************************************************************)
(* C20.  After a stop is requested on a runner whose poll loop has begun   *)
(* its first fetch, the runner begins at most one further fetch: none when *)
(* the stop arrives during a cycle, and one when it arrives between two    *)
(* cycles (while the runner sleeps), because the flag is polled only at    *)
(* the end of a cycle, before the sleep.                                   *)
(***************************************************************************)
\* a stop was requested after the first fetch of the runner had begun
StoppedAfterFirstFetch(r) ==
    stopRequested[r] \in {"midcycle", "endcycle", "between", "refetched"}

\* the runner begins a fetch in this step
BeginsFetch(r) == cycle'[r] = cycle[r] + 1

C20_AtMostOneFurtherFetch ==
    [][\A r \in Registered :
          /\ StoppedAfterFirstFetch(r) /\ BeginsFetch(r)
                => stopRequested[r] = "between"
          /\ StoppedAfterFirstFetch(r) /\ pc'[r] \in {"l156", "stopped"}
                => stopRequested'[r] # "between"]_vars

\* a stop came while the runner slept after its first cycle; the runner took
\* one further cycle, dispatching in it, and left its loop
C20_Witness ==
    \E r \in Registered :
       /\ pc[r] = "stopped"
       /\ stopRequested[r] = "refetched"
       /\ cycle[r] = 2
       /\ \E k \in 1..Len(sent[r]) : sent[r][k].cycle = 2

=============================================================================
